---------------------------- MODULE Spec2Model ----------------------------
(***************************************************************************)
(* A model of trident-syscall-stubs-v1 (src/syscall_stubs.rs): the         *)
(* process-wide stub registry (set_stubs_v1), the error translator         *)
(* (TridentTryFrom<InstructionError> for ProgramError), the sysvar         *)
(* accessors, the return-data channel and the cross-invocation bridge      *)
(* (sol_invoke_signed).                                                    *)
(*                                                                         *)
(* Every component has its own specification over the shared variables:   *)
(*   SpecInstall     threads calling set_stubs_v1                          *)
(*   SpecTranslate   try_from_custom applied to host errors                *)
(*   SpecSysvar      the six sol_get_*_sysvar accessors                    *)
(*   SpecReturnData  sol_set_return_data / sol_get_return_data             *)
(*   SpecInvoke      sol_invoke_signed, one step per statement             *)
(* The variables a specification does not use keep their initial value.    *)
(* Every syscall is modelled inside an active execution context            *)
(* (get_invoke_context() succeeds): the context is supplied ready-made by  *)
(* the harness before the guest runs.                                      *)
(***************************************************************************)
EXTENDS Integers, Sequences, FiniteSets, TLC

(***************************************************************************)
(* State.                                                                  *)
(***************************************************************************)
\* Stub registry.
VARIABLES
    ONCE,              \* state of the static std::sync::Once (line 25)
    handler,           \* the process-wide SYSCALL_STUBS slot set_syscall_stubs writes
    installs,          \* number of completed set_syscall_stubs calls
    tpc,               \* position of each thread inside set_stubs_v1
    tcalls             \* calls of set_stubs_v1 each thread has started

installVars == <<ONCE, handler, installs, tpc, tcalls>>

\* Error translator.
VARIABLES
    errIn,             \* the InstructionError handed to try_from_custom
    errOut             \* its result, NoResult before the call

translateVars == <<errIn, errOut>>

\* Sysvar accessors.
VARIABLES
    sysvarCache,       \* the host's sysvar cache: kind -> value, 0 when absent
    varKind,           \* the accessor called last, "none" before any call
    varBefore,         \* what *var_addr held when that accessor was called
    varBuf,            \* what *var_addr holds now: [kind, val]
    sysStatus          \* the u64 the accessor returned

sysvarVars == <<sysvarCache, varKind, varBefore, varBuf, sysStatus>>

\* Return-data channel and the host's instruction stack.
VARIABLES
    programStack,      \* instruction stack: the program id of each frame
    returnData,        \* the slot: [program_id, data]
    getResult,         \* what sol_get_return_data returned, None after a set
    lastSet,           \* history: the (program, bytes) of the last completed set
    rdPanicked         \* an unwrap() of sol_set_return_data panicked

returnVars == <<programStack, returnData, getResult, lastSet, rdPanicked>>

\* Cross-invocation bridge.
VARIABLES
    hostAcc,               \* host account state: key -> [lamports, data, owner]
    callerWritable,        \* keys that are writable in the calling frame
    acctInfos,             \* guest account views: [key, lamports, data, owner, orig_len]
    guestWrote,            \* the guest has modified a view before the call
    pc,                    \* position inside sol_invoke_signed
    instruction,           \* the nested instruction of the call
    signers_seeds,         \* the signer-seed sets of the call
    caller,                \* line 119: last program key of the current frame
    signers,               \* line 125: the derived signer set
    instruction_accounts,  \* line 130: the expanded instruction-account list
    account_indices,       \* line 145: (index_in_caller, account_info_index) pairs
    idx,                   \* loop position of copy-in / copy-out
    account_info_index,    \* line 153: the guest view matched in this iteration
    borrowed,              \* key of the live BorrowedAccount handle, "none"
    live,                  \* host accounts whose RefCell is borrowed by the bridge
    result,                \* what sol_invoke_signed returned
    trace,                 \* the steps the call has taken, in order
    guest0,                \* history: the guest views when the call started
    host0,                 \* history: the host accounts when the call started
    hostErr,               \* history: the last error the host reported, and where
    fatal                  \* history: contract violations met by the call

invokeVars ==
    <<hostAcc, callerWritable, acctInfos, guestWrote, pc, instruction,
      signers_seeds, caller, signers, instruction_accounts, account_indices,
      idx, account_info_index, borrowed, live, result, trace, guest0, host0,
      hostErr, fatal>>

vars == <<installVars, translateVars, sysvarVars, returnVars, invokeVars>>

\* What the actions of one component leave alone.
exceptInstall == <<translateVars, sysvarVars, returnVars, invokeVars>>
exceptTranslate == <<installVars, sysvarVars, returnVars, invokeVars>>
exceptSysvar == <<installVars, translateVars, returnVars, invokeVars>>
exceptReturnData == <<installVars, translateVars, sysvarVars, invokeVars>>
exceptInvoke == <<installVars, translateVars, sysvarVars, returnVars>>


(***************************************************************************)
(* Bounds of the model.                                                    *)
(***************************************************************************)
NumThreads == 3        \* threads that call set_stubs_v1
MaxCalls == 2          \* calls of set_stubs_v1 per thread

Threads == 1..NumThreads


(***************************************************************************)
(* Stub registry: set_stubs_v1 (lines 25-31).                              *)
(* std::sync::Once has the states INCOMPLETE, RUNNING and COMPLETE.        *)
(* call_once runs the closure in the one thread that moves the cell from   *)
(* INCOMPLETE to RUNNING; a thread that finds it RUNNING blocks until it   *)
(* is COMPLETE; a thread that finds it COMPLETE returns at once.           *)
(***************************************************************************)
DefaultStubs == "DefaultSyscallStubs"
TridentStubs == "TridentSyscallStubs"

\* Mutant of OnceMayRun: a plain flag test that lets a second thread run the
\* closure while the first is still inside it.
OnceMayRun_NoExclusion(state) == state # "COMPLETE"

\* call_once: may this caller run the closure?
OnceMayRun(state) == state = "INCOMPLETE"

\* Mutant of OnceIsCompleted: a caller takes RUNNING for done.
OnceIsCompleted_SeesRunning(state) == state # "INCOMPLETE"

\* call_once: fast path and wake-up condition of a blocked caller.
OnceIsCompleted(state) == state = "COMPLETE"

InitInstall ==
    /\ ONCE = "INCOMPLETE"
    /\ handler = DefaultStubs
    /\ installs = 0
    /\ tpc = [t \in Threads |-> "idle"]
    /\ tcalls = [t \in Threads |-> 0]

\* A thread enters set_stubs_v1 (line 27).
set_stubs_v1(t) ==
    /\ tpc[t] \in {"idle", "returned"}
    /\ tcalls[t] < MaxCalls
    /\ tpc' = [tpc EXCEPT ![t] = "call_once"]
    /\ tcalls' = [tcalls EXCEPT ![t] = @ + 1]
    /\ UNCHANGED <<ONCE, handler, installs>>
    /\ UNCHANGED exceptInstall

\* ONCE.call_once(...) (line 28): fast path, winner, or blocked caller.
call_once(t) ==
    /\ tpc[t] = "call_once"
    /\ IF OnceIsCompleted(ONCE)
         THEN /\ tpc' = [tpc EXCEPT ![t] = "returned"]
              /\ UNCHANGED ONCE
         ELSE IF OnceMayRun(ONCE)
           THEN /\ ONCE' = "RUNNING"
                /\ tpc' = [tpc EXCEPT ![t] = "closure"]
           ELSE /\ tpc' = [tpc EXCEPT ![t] = "blocked"]
                /\ UNCHANGED ONCE
    /\ UNCHANGED <<handler, installs, tcalls>>
    /\ UNCHANGED exceptInstall

\* The closure body: set_syscall_stubs(Box::new(TridentSyscallStubs {})) (line 29).
\* set_syscall_stubs replaces the slot under its write lock, in one step.
set_syscall_stubs(t) ==
    /\ tpc[t] = "closure"
    /\ handler' = TridentStubs
    /\ installs' = installs + 1
    /\ tpc' = [tpc EXCEPT ![t] = "installed"]
    /\ UNCHANGED <<ONCE, tcalls>>
    /\ UNCHANGED exceptInstall

\* The closure has returned: call_once marks the cell COMPLETE and returns (line 30).
call_once_complete(t) ==
    /\ tpc[t] = "installed"
    /\ ONCE' = "COMPLETE"
    /\ tpc' = [tpc EXCEPT ![t] = "returned"]
    /\ UNCHANGED <<handler, installs, tcalls>>
    /\ UNCHANGED exceptInstall

\* A blocked caller is released once the cell is COMPLETE.
call_once_wake(t) ==
    /\ tpc[t] = "blocked"
    /\ OnceIsCompleted(ONCE)
    /\ tpc' = [tpc EXCEPT ![t] = "returned"]
    /\ UNCHANGED <<ONCE, handler, installs, tcalls>>
    /\ UNCHANGED exceptInstall

(***************************************************************************)
(* Error translator: impl TridentTryFrom<InstructionError> for             *)
(* ProgramError (lines 301-339).                                           *)
(* A host error is a value of solana_sdk::instruction::InstructionError, a *)
(* guest error a value of solana_program::program_error::ProgramError.     *)
(* Both are records [enum, kind, code, msg]: code is the u32 of Custom,    *)
(* msg the String of BorshIoError; the other variants carry 0 and "".      *)
(***************************************************************************)
MaxCustomCode == 2     \* Custom(0) .. Custom(MaxCustomCode)

CustomCodes == 0..MaxCustomCode
BorshMessages == {"eof", "bad tag"}

\* The variants of InstructionError that carry no payload (line 9).
HostPlainKinds ==
    {"GenericError", "InvalidArgument", "InvalidInstructionData",
     "InvalidAccountData", "AccountDataTooSmall", "InsufficientFunds",
     "IncorrectProgramId", "MissingRequiredSignature",
     "AccountAlreadyInitialized", "UninitializedAccount",
     "UnbalancedInstruction", "ModifiedProgramId",
     "ExternalAccountLamportSpend", "ExternalAccountDataModified",
     "ReadonlyLamportChange", "ReadonlyDataModified", "DuplicateAccountIndex",
     "ExecutableModified", "RentEpochModified", "NotEnoughAccountKeys",
     "AccountDataSizeChanged", "AccountNotExecutable", "AccountBorrowFailed",
     "AccountBorrowOutstanding", "DuplicateAccountOutOfSync", "InvalidError",
     "ExecutableDataModified", "ExecutableLamportChange",
     "ExecutableAccountNotRentExempt", "UnsupportedProgramId", "CallDepth",
     "MissingAccount", "ReentrancyNotAllowed", "MaxSeedLengthExceeded",
     "InvalidSeeds", "InvalidRealloc", "ComputationalBudgetExceeded",
     "PrivilegeEscalation", "ProgramEnvironmentSetupFailure",
     "ProgramFailedToComplete", "ProgramFailedToCompile", "Immutable",
     "IncorrectAuthority", "AccountNotRentExempt", "InvalidAccountOwner",
     "ArithmeticOverflow", "UnsupportedSysvar", "IllegalOwner",
     "MaxAccountsDataAllocationsExceeded", "MaxAccountsExceeded",
     "MaxInstructionTraceLengthExceeded",
     "BuiltinProgramsMustConsumeComputeUnits"}

InstructionError(kind, code, msg) ==
    [enum |-> "InstructionError", kind |-> kind, code |-> code, msg |-> msg]

ProgramError(kind, code, msg) ==
    [enum |-> "ProgramError", kind |-> kind, code |-> code, msg |-> msg]

\* Every host error value the model draws from.
HostErrors ==
    {InstructionError(k, 0, "") : k \in HostPlainKinds}
      \cup {InstructionError("Custom", c, "") : c \in CustomCodes}
      \cup {InstructionError("BorshIoError", 0, m) : m \in BorshMessages}

Ok(v) == [tag |-> "Ok", val |-> v]
Err(e) == [tag |-> "Err", val |-> e]
NoResult == [tag |-> "None"]

\* Mutant of try_from_custom: the payload of Custom is dropped and every
\* unlisted kind is guessed to be InvalidArgument.
try_from_custom_Guessing(error) ==
    IF error.kind = "Custom" THEN Ok(ProgramError("Custom", 0, ""))
    ELSE IF error.kind = "BorshIoError"
      THEN Ok(ProgramError("BorshIoError", 0, error.msg))
    ELSE IF error.kind \in {"InvalidInstructionData", "InsufficientFunds"}
      THEN Ok(ProgramError(error.kind, 0, ""))
    ELSE Ok(ProgramError("InvalidArgument", 0, ""))

\* try_from_custom (lines 304-338), one arm per arm of the match.
try_from_custom(error) ==
    CASE
      error.kind = "Custom" -> Ok(ProgramError("Custom", error.code, ""))
   [] error.kind = "InvalidArgument" -> Ok(ProgramError("InvalidArgument", 0, ""))
   [] error.kind = "InvalidInstructionData" -> Ok(ProgramError("InvalidInstructionData", 0, ""))
   [] error.kind = "InvalidAccountData" -> Ok(ProgramError("InvalidAccountData", 0, ""))
   [] error.kind = "AccountDataTooSmall" -> Ok(ProgramError("AccountDataTooSmall", 0, ""))
   [] error.kind = "InsufficientFunds" -> Ok(ProgramError("InsufficientFunds", 0, ""))
   [] error.kind = "IncorrectProgramId" -> Ok(ProgramError("IncorrectProgramId", 0, ""))
   [] error.kind = "MissingRequiredSignature" -> Ok(ProgramError("MissingRequiredSignature", 0, ""))
   [] error.kind = "AccountAlreadyInitialized" -> Ok(ProgramError("AccountAlreadyInitialized", 0, ""))
   [] error.kind = "UninitializedAccount" -> Ok(ProgramError("UninitializedAccount", 0, ""))
   [] error.kind = "NotEnoughAccountKeys" -> Ok(ProgramError("NotEnoughAccountKeys", 0, ""))
   [] error.kind = "AccountBorrowFailed" -> Ok(ProgramError("AccountBorrowFailed", 0, ""))
   [] error.kind = "MaxSeedLengthExceeded" -> Ok(ProgramError("MaxSeedLengthExceeded", 0, ""))
   [] error.kind = "InvalidSeeds" -> Ok(ProgramError("InvalidSeeds", 0, ""))
   [] error.kind = "BorshIoError" -> Ok(ProgramError("BorshIoError", 0, error.msg))
   [] error.kind = "AccountNotRentExempt" -> Ok(ProgramError("AccountNotRentExempt", 0, ""))
   [] error.kind = "UnsupportedSysvar" -> Ok(ProgramError("UnsupportedSysvar", 0, ""))
   [] error.kind = "IllegalOwner" -> Ok(ProgramError("IllegalOwner", 0, ""))
   [] error.kind = "MaxAccountsDataAllocationsExceeded" -> Ok(ProgramError("MaxAccountsDataAllocationsExceeded", 0, ""))
   [] error.kind = "InvalidRealloc" -> Ok(ProgramError("InvalidRealloc", 0, ""))
   [] error.kind = "MaxInstructionTraceLengthExceeded" -> Ok(ProgramError("MaxInstructionTraceLengthExceeded", 0, ""))
   [] error.kind = "BuiltinProgramsMustConsumeComputeUnits" -> Ok(ProgramError("BuiltinProgramsMustConsumeComputeUnits", 0, ""))
   [] error.kind = "InvalidAccountOwner" -> Ok(ProgramError("InvalidAccountOwner", 0, ""))
   [] error.kind = "ArithmeticOverflow" -> Ok(ProgramError("ArithmeticOverflow", 0, ""))
   [] OTHER -> Err(error)


InitTranslate ==
    /\ errIn \in HostErrors
    /\ errOut = NoResult

\* ProgramError::try_from_custom(err) is called on the pending error.
Translate ==
    /\ errOut = NoResult
    /\ errOut' = try_from_custom(errIn)
    /\ UNCHANGED errIn
    /\ UNCHANGED exceptTranslate

\* The caller comes back with another host error.
NextError ==
    /\ errOut # NoResult
    /\ errIn' \in HostErrors
    /\ errOut' = NoResult
    /\ UNCHANGED exceptTranslate

(***************************************************************************)
(* Sysvar accessors: get_sysvar (lines 33-44) and the six                  *)
(* sol_get_*_sysvar methods (lines 56-91).                                 *)
(* A sysvar value is a number 1..MaxSysvarVal; the cache holds 0 for a     *)
(* sysvar it does not have, and its getter then returns                    *)
(* Err(InstructionError::UnsupportedSysvar).  Status codes are u64: they   *)
(* are written as <<high 32 bits, low 32 bits>>.                           *)
(***************************************************************************)
MaxSysvarVal == 1      \* sysvar values 1..MaxSysvarVal

SysvarKinds ==
    {"rent", "clock", "epoch_schedule", "epoch_rewards", "fees",
     "last_restart_slot"}
SysvarVals == 1..MaxSysvarVal

SUCCESS == <<0, 0>>                 \* solana_sdk::entrypoint::SUCCESS (line 7)
UNSUPPORTED_SYSVAR == <<17, 0>>     \* to_builtin!(17) = 17 << 32 (line 10)
NoStatus == <<-1, -1>>              \* no accessor has returned yet


\* invoke_context.get_sysvar_cache().get_<kind>(): Result<Arc<T>, InstructionError>.
sysvar_cache_get(kind) ==
    IF sysvarCache[kind] = 0
      THEN Err(InstructionError("UnsupportedSysvar", 0, ""))
      ELSE Ok([kind |-> kind, val |-> sysvarCache[kind]])

\* Mutant of get_sysvar: on a miss the buffer is filled with T::default()
\* and the call reports success.
get_sysvar_DefaultOnMiss(sysvar, buf) ==
    IF sysvar.tag = "Ok"
      THEN [buf |-> sysvar.val, status |-> SUCCESS]
      ELSE [buf |-> [kind |-> buf.kind, val |-> 0], status |-> SUCCESS]

\* get_sysvar (lines 33-44): the buffer after the call and the status code.
get_sysvar(sysvar, buf) ==
    IF sysvar.tag = "Ok"
      THEN [buf |-> sysvar.val, status |-> SUCCESS]
      ELSE [buf |-> buf, status |-> UNSUPPORTED_SYSVAR]

InitSysvar ==
    /\ sysvarCache \in [SysvarKinds -> {0} \cup SysvarVals]
    /\ varKind = "none"
    /\ varBefore = [kind |-> "none", val |-> 0]
    /\ varBuf = [kind |-> "none", val |-> 0]
    /\ sysStatus = NoStatus

\* The body of an accessor: the guest passes a buffer that holds `prior`, and
\* get_sysvar is applied to what the cache getter named in the accessor
\* returns; the getter's type is the type T of the value written.
SysvarCall(accessor, getter, prior) ==
    LET r == get_sysvar(sysvar_cache_get(getter), [kind |-> accessor, val |-> prior])
    IN  /\ varBefore' = [kind |-> accessor, val |-> prior]
        /\ varBuf' = r.buf
        /\ sysStatus' = r.status
        /\ UNCHANGED sysvarCache
        /\ UNCHANGED exceptSysvar

BufferValues == {0} \cup SysvarVals

sol_get_rent_sysvar ==
    /\ varKind' = "rent"
    /\ \E prior \in BufferValues : SysvarCall("rent", "rent", prior)

sol_get_clock_sysvar ==
    /\ varKind' = "clock"
    /\ \E prior \in BufferValues : SysvarCall("clock", "clock", prior)

sol_get_epoch_schedule_sysvar ==
    /\ varKind' = "epoch_schedule"
    /\ \E prior \in BufferValues :
         SysvarCall("epoch_schedule", "epoch_schedule", prior)

sol_get_epoch_rewards_sysvar ==
    /\ varKind' = "epoch_rewards"
    /\ \E prior \in BufferValues :
         SysvarCall("epoch_rewards", "epoch_rewards", prior)

sol_get_fees_sysvar ==
    /\ varKind' = "fees"
    /\ \E prior \in BufferValues : SysvarCall("fees", "fees", prior)

sol_get_last_restart_slot ==
    /\ varKind' = "last_restart_slot"
    /\ \E prior \in BufferValues :
         SysvarCall("last_restart_slot", "last_restart_slot", prior)

(***************************************************************************)
(* Return-data channel: sol_get_return_data (lines 270-278) and            *)
(* sol_set_return_data (lines 279-291).                                    *)
(* The slot is TransactionContext::return_data, (Pubkey::default(), [])    *)
(* in a fresh transaction context.  programStack is the program of every   *)
(* frame of the instruction stack, the current frame last.                 *)
(***************************************************************************)
MaxDepth == 2          \* frames on the instruction stack
MaxReturnLen == 2      \* bytes handed to sol_set_return_data

Programs == {"P1", "P2"}
DefaultPubkey == "11111111111111111111111111111111"
ReturnBytes == {1, 2}

SeqsUpTo(S, n) == UNION {[1..k -> S] : k \in 0..n}

ReturnBuffers == SeqsUpTo(ReturnBytes, MaxReturnLen)

Some(v) == [tag |-> "Some", val |-> v]
None == [tag |-> "None"]


EmptyReturnData == [program_id |-> DefaultPubkey, data |-> <<>>]

\* Mutant of set_return_data: the bytes are appended to the slot and the
\* producer is kept once it is set.
set_return_data_Append(slot, program_id, data) ==
    [program_id |-> IF slot.program_id = DefaultPubkey THEN program_id
                    ELSE slot.program_id,
     data |-> slot.data \o data]

\* transaction_context.set_return_data(caller, data.to_vec()) (lines 288-290).
set_return_data(slot, program_id, data) ==
    [program_id |-> program_id, data |-> data]

\* sol_get_return_data (lines 273-277): Some((*program_id, data.to_vec())).
get_return_data(slot, stack) ==
    Some([program_id |-> slot.program_id, data |-> slot.data])

InitReturnData ==
    /\ programStack \in SeqsUpTo(Programs, MaxDepth)
    /\ returnData = EmptyReturnData
    /\ getResult = None
    /\ lastSet = None
    /\ rdPanicked = FALSE

\* sol_set_return_data (lines 279-291).  get_current_instruction_context()
\* fails on an empty instruction stack and the unwrap() panics.
sol_set_return_data(data) ==
    /\ ~rdPanicked
    /\ IF programStack = <<>>
         THEN /\ rdPanicked' = TRUE
              /\ UNCHANGED <<returnData, lastSet>>
         ELSE LET last_program_key == programStack[Len(programStack)]
              IN  /\ returnData' = set_return_data(returnData, last_program_key, data)
                  /\ lastSet' = Some([program_id |-> last_program_key,
                                       data |-> data])
                  /\ UNCHANGED rdPanicked
    /\ getResult' = None
    /\ UNCHANGED programStack
    /\ UNCHANGED exceptReturnData

\* sol_get_return_data (lines 270-278).
sol_get_return_data ==
    /\ ~rdPanicked
    /\ getResult' = get_return_data(returnData, programStack)
    /\ UNCHANGED <<programStack, returnData, lastSet, rdPanicked>>
    /\ UNCHANGED exceptReturnData

\* The host pops the current frame: the program that ran returns to its
\* caller, which reads the channel next (the stack read at lines 282-287
\* differs between a set and a later get).
pop_frame ==
    /\ ~rdPanicked
    /\ programStack # <<>>
    /\ programStack' = SubSeq(programStack, 1, Len(programStack) - 1)
    /\ UNCHANGED <<returnData, getResult, lastSet, rdPanicked>>
    /\ UNCHANGED exceptReturnData

(***************************************************************************)
(* Cross-invocation bridge: sol_invoke_signed (lines 92-269).              *)
(*                                                                         *)
(* The host side is the InvokeContext of the solana runtime.  An account   *)
(* of the transaction is named by its public key; Keys are the accounts of *)
(* the transaction, all of them instruction accounts of the calling frame, *)
(* so index_in_transaction and index_in_caller are the key itself.         *)
(* UnknownKey is a public key that names no account of the transaction.    *)
(***************************************************************************)
MaxLamports == 1       \* lamport balances 0..MaxLamports
MaxLen == 1            \* account data of at most MaxLen bytes
MaxSeedSets == 1       \* signer-seed sets of a call
MaxSignerSeedSets == 2 \* signer-seed sets of a call, where their order matters

Keys == {"A", "B"}
UnknownKey == "X"
AcctBytes == {0, 1}

\* Account data: n bytes of one value, [b; n] for n <= MaxLen.
DataValues == UNION {[1..n -> {b}] : n \in 0..MaxLen, b \in AcctBytes}

\* An instruction carries at most as many metas as the transaction has
\* accounts: two different accounts, or one account named twice.
MaxMetas == Cardinality(Keys)

\* MAX_PERMITTED_DATA_INCREASE of AccountInfo::realloc, scaled to MaxLen.
MaxDataIncrease == MaxLen - 1
Lamports == 0..MaxLamports
TargetProgram == "P2"

\* The fields of an account the bridge synchronizes.
AccountStates == [lamports : Lamports, data : DataValues, owner : Programs]

\* Signer seeds: "sa" and "sb" derive valid addresses, "bad" violates the
\* seed rules.
SeedSets == {"sa", "bad"}
SignerSeedSets == SeedSets \cup {"sb"}

\* Pubkey::create_program_address(seeds, program_id) (line 127): a fixed
\* table; the address depends on the base program.
create_program_address(seeds, program_id) ==
    IF seeds = "bad" THEN Err("MaxSeedLengthExceeded")
    ELSE IF (program_id = "P1") = (seeds = "sa") THEN Ok("A")
    ELSE Ok("B")

\* The account metas an instruction may carry.
Metas ==
    [pubkey : {"A"}, is_writable : BOOLEAN, is_signer : BOOLEAN]
      \cup [pubkey : {"B"}, is_writable : BOOLEAN, is_signer : {FALSE}]
      \cup [pubkey : {UnknownKey}, is_writable : {FALSE}, is_signer : {FALSE}]

Instructions == [program_id : {TargetProgram}, accounts : SeqsUpTo(Metas, MaxMetas)]

\* Instructions with at most one meta, for calls that vary the signer seeds.
SignerInstructions == {i \in Instructions : Len(i.accounts) <= 1}


IE(kind) == InstructionError(kind, 0, "")

Last(seq) == seq[Len(seq)]

(***************************************************************************)
(* BorrowedAccount of the host (solana transaction_context): the checks    *)
(* the operations called at lines 169-200 make.  `acc` is the account,     *)
(* `writable` its privilege in the calling frame, `cur` the program of the *)
(* calling frame.                                                          *)
(***************************************************************************)
is_zeroed(data) == \A i \in 1..Len(data) : data[i] = 0

set_lamports(acc, writable, cur, lamports) ==
    IF acc.owner # cur /\ lamports < acc.lamports
      THEN Err(IE("ExternalAccountLamportSpend"))
    ELSE IF ~writable THEN Err(IE("ReadonlyLamportChange"))
    ELSE Ok([acc EXCEPT !.lamports = lamports])

can_data_be_resized(acc, cur, new_length) ==
    IF new_length # Len(acc.data) /\ acc.owner # cur
      THEN Err(IE("InvalidRealloc"))
      ELSE Ok(acc)

can_data_be_changed(acc, writable, cur) ==
    IF ~writable THEN Err(IE("ReadonlyDataModified"))
    ELSE IF acc.owner # cur THEN Err(IE("ExternalAccountDataModified"))
    ELSE Ok(acc)

set_data_from_slice(acc, writable, cur, data) ==
    IF can_data_be_resized(acc, cur, Len(data)).tag = "Err"
      THEN can_data_be_resized(acc, cur, Len(data))
    ELSE IF can_data_be_changed(acc, writable, cur).tag = "Err"
      THEN can_data_be_changed(acc, writable, cur)
    ELSE Ok([acc EXCEPT !.data = data])

set_owner(acc, writable, cur, owner) ==
    IF acc.owner # cur \/ ~writable \/ ~is_zeroed(acc.data)
      THEN Err(IE("ModifiedProgramId"))
      ELSE Ok([acc EXCEPT !.owner = owner])

(***************************************************************************)
(* invoke_context.prepare_instruction(&instruction, &signers) (line 130).  *)
(* Every meta must name an account of the transaction; the privileges of   *)
(* metas naming the same account are merged; a writable meta needs an      *)
(* account writable in the caller, a signer meta an account among the      *)
(* derived signers (no account of the calling frame is a signer).          *)
(***************************************************************************)
MergedWritable(metas, k) ==
    \E i \in 1..Len(metas) : metas[i].pubkey = k /\ metas[i].is_writable

MergedSigner(metas, k) ==
    \E i \in 1..Len(metas) : metas[i].pubkey = k /\ metas[i].is_signer

InSeq(x, seq) == \E i \in 1..Len(seq) : seq[i] = x

prepare_instruction(instr, signer_keys, writable) ==
    LET metas == instr.accounts
    IN  IF \E i \in 1..Len(metas) : metas[i].pubkey \notin Keys
          THEN Err(IE("MissingAccount"))
        ELSE IF \E i \in 1..Len(metas) :
                  \/ MergedWritable(metas, metas[i].pubkey)
                       /\ metas[i].pubkey \notin writable
                  \/ MergedSigner(metas, metas[i].pubkey)
                       /\ ~InSeq(metas[i].pubkey, signer_keys)
          THEN Err(IE("PrivilegeEscalation"))
        ELSE Ok([i \in 1..Len(metas) |->
                   [index_in_transaction |-> metas[i].pubkey,
                    index_in_caller |-> metas[i].pubkey,
                    is_signer |-> MergedSigner(metas, metas[i].pubkey),
                    is_writable |-> MergedWritable(metas, metas[i].pubkey)]])


(***************************************************************************)
(* Helpers of sol_invoke_signed.                                           *)
(***************************************************************************)
\* Mutant of map_err: an error without an entry in the table is handed to
\* the guest as InvalidArgument instead of aborting.
map_err_Lenient(err) ==
    LET r == try_from_custom(err)
    IN  IF r.tag = "Ok" THEN [panic |-> FALSE, error |-> r.val]
        ELSE [panic |-> FALSE, error |-> ProgramError("InvalidArgument", 0, "")]

\* The closure of every map_err (lines 115-117, 132-134, ...):
\* ProgramError::try_from_custom(err).unwrap_or_else(|err| panic!("{}", err)).
map_err(err) ==
    LET r == try_from_custom(err)
    IN  IF r.tag = "Ok" THEN [panic |-> FALSE, error |-> r.val]
        ELSE [panic |-> TRUE, error |-> r.val]

\* Mutant of get_last_program_key: the outermost program of the stack.
get_last_program_key_Outermost(stack) == stack[1]

\* instruction_context.get_last_program_key(transaction_context) (lines
\* 119-123): the program the current instruction frame runs.
get_last_program_key(stack) == Last(stack)

\* account_infos.iter().position(|account_info| account_info.unsigned_key()
\* == account_key) (lines 153-155); 0 stands for None.
position(views, key) ==
    IF \E v \in 1..Len(views) : views[v].key = key
      THEN CHOOSE v \in 1..Len(views) :
             /\ views[v].key = key
             /\ \A u \in 1..(v - 1) : views[u].key # key
      ELSE 0

\* Mutant of CopyInSteps: the owner is synchronized first.
CopyInSteps_OwnerFirst == <<"owner", "lamports", "data">>

\* The order of the synchronization statements of one copy-in iteration
\* (lines 169-175, 177-192, 194-200).
CopyInSteps == <<"lamports", "data", "owner">>

\* The statement that follows `cur` in a copy-in iteration; "record" is the
\* end of the iteration (lines 201-204).
NextCopyInStep(cur) ==
    IF cur = "find" THEN CopyInSteps[1]
    ELSE LET j == CHOOSE i \in 1..Len(CopyInSteps) : CopyInSteps[i] = cur
         IN  IF j < Len(CopyInSteps) THEN CopyInSteps[j + 1] ELSE "record"

\* Mutant of record_for_copy_out: every account is copied back.
record_for_copy_out_All(instruction_account) == TRUE

\* `if instruction_account.is_writable` (line 201).
record_for_copy_out(instruction_account) == instruction_account.is_writable

\* Mutant of data_sync: a forbidden change of differing bytes is ignored.
data_sync_Silent(acc, writable, cur, guest_data) ==
    IF /\ can_data_be_resized(acc, cur, Len(guest_data)).tag = "Ok"
       /\ can_data_be_changed(acc, writable, cur).tag = "Ok"
      THEN [how |-> "set", res |-> set_data_from_slice(acc, writable, cur, guest_data)]
      ELSE [how |-> "keep", res |-> Ok(acc)]

\* Mutant of data_sync: only the resize check guards set_data_from_slice.
data_sync_ResizeOnly(acc, writable, cur, guest_data) ==
    IF can_data_be_resized(acc, cur, Len(guest_data)).tag = "Ok"
      THEN [how |-> "set", res |-> set_data_from_slice(acc, writable, cur, guest_data)]
    ELSE IF acc.data # guest_data
      THEN [how |-> "panic", res |-> Ok(acc)]
    ELSE [how |-> "keep", res |-> Ok(acc)]

\* The match of lines 179-192 on
\* can_data_be_resized(len).and_then(|_| can_data_be_changed()).
data_sync(acc, writable, cur, guest_data) ==
    IF /\ can_data_be_resized(acc, cur, Len(guest_data)).tag = "Ok"
       /\ can_data_be_changed(acc, writable, cur).tag = "Ok"
      THEN [how |-> "set", res |-> set_data_from_slice(acc, writable, cur, guest_data)]
    ELSE IF acc.data # guest_data
      THEN [how |-> "panic", res |-> Ok(acc)]
    ELSE [how |-> "keep", res |-> Ok(acc)]

\* Mutant of copy_out_view: the guest buffer keeps its length and takes the
\* bytes that fit.
copy_out_view_NoResize(view, acc) ==
    [how |-> "ok",
     view |-> [view EXCEPT
                 !.lamports = acc.lamports,
                 !.owner = acc.owner,
                 !.data = [i \in 1..Len(view.data) |->
                             IF i <= Len(acc.data) THEN acc.data[i]
                             ELSE view.data[i]]]]

\* Mutant of copy_out_view: the error of realloc is handed to the guest with
\* `?` instead of unwrap().
copy_out_view_ReallocErr(view, acc) ==
    IF /\ Len(view.data) # Len(acc.data)
       /\ Len(acc.data) - view.orig_len > MaxDataIncrease
      THEN [how |-> "return",
            view |-> [view EXCEPT !.lamports = acc.lamports,
                                  !.owner = acc.owner]]
      ELSE [how |-> "ok",
            view |-> [view EXCEPT !.lamports = acc.lamports,
                                  !.owner = acc.owner,
                                  !.data = acc.data]]

\* One copy-out iteration on a guest view (lines 241-263): lamports, owner,
\* realloc when the lengths differ, then the bytes.  AccountInfo::realloc
\* fails, and the unwrap() panics, when the new length exceeds the view's
\* original length by more than MAX_PERMITTED_DATA_INCREASE; lamports and
\* owner are written by then.  `how` is the way the iteration ends: "ok",
\* "panic", or "return" with the error of realloc.
copy_out_view(view, acc) ==
    IF /\ Len(view.data) # Len(acc.data)
       /\ Len(acc.data) - view.orig_len > MaxDataIncrease
      THEN [how |-> "panic",
            view |-> [view EXCEPT !.lamports = acc.lamports,
                                  !.owner = acc.owner]]
      ELSE [how |-> "ok",
            view |-> [view EXCEPT !.lamports = acc.lamports,
                                  !.owner = acc.owner,
                                  !.data = acc.data]]

\* instruction_context.try_borrow_instruction_account(transaction_context,
\* index) (lines 161-168, 236-240): the account's RefCell is borrowed
\* mutably; the host refuses while another handle to the account is live.
try_borrow_instruction_account(held, index) ==
    IF index \in held THEN Err(IE("AccountBorrowFailed")) ELSE Ok(held \cup {index})

\* Mutant of drop_borrowed: the handle outlives the iteration.
drop_borrowed_Leak(held, index) == held

\* `borrowed_account` goes out of scope at the end of the loop body (lines
\* 204, 264), at a `?` return and when a panic unwinds.
drop_borrowed(held, index) == held \ {index}

\* The errors process_instruction reports in the model: two with an entry
\* in the translation table, two without.
ProcessErrors ==
    {InstructionError("Custom", 1, ""), IE("InsufficientFunds"),
     IE("ComputationalBudgetExceeded"), IE("CallDepth")}

Unit == "unit"
NoHostErr == [tag |-> "None"]

\* Mutant of StepAfter: the signers are derived after the copy-in loop.
StepAfter_SignersLate(step) ==
    CASE step = "entry" -> "prepare"
      [] step = "prepare" -> "copy_in"
      [] step = "copy_in" -> "derive_signers"
      [] step = "derive_signers" -> "log_invoke"
      [] step = "log_invoke" -> "process"
      [] step = "process" -> "copy_out"
      [] step = "copy_out" -> "log_success"
      [] step = "log_success" -> "returned"

\* Mutant of StepAfter: the nested instruction runs before the invocation
\* log is written.
StepAfter_LogLate(step) ==
    CASE step = "entry" -> "derive_signers"
      [] step = "derive_signers" -> "prepare"
      [] step = "prepare" -> "copy_in"
      [] step = "copy_in" -> "process"
      [] step = "process" -> "log_invoke"
      [] step = "log_invoke" -> "copy_out"
      [] step = "copy_out" -> "log_success"
      [] step = "log_success" -> "returned"

\* The order of the statements of sol_invoke_signed (lines 125-268): the
\* signers, prepare_instruction, the copy-in loop, program_invoke,
\* process_instruction, the copy-out loop, program_success, Ok(()).
StepAfter(step) ==
    CASE step = "entry" -> "derive_signers"
      [] step = "derive_signers" -> "prepare"
      [] step = "prepare" -> "copy_in"
      [] step = "copy_in" -> "log_invoke"
      [] step = "log_invoke" -> "process"
      [] step = "process" -> "copy_out"
      [] step = "copy_out" -> "log_success"
      [] step = "log_success" -> "returned"

\* Where control is when `step` is the next statement: a loop over an empty
\* list (entries for copy-in, pairs for copy-out) is passed over.
RECURSIVE Enter(_, _, _)
Enter(step, entries, pairs) ==
    IF step = "copy_in"
      THEN IF entries = <<>> THEN Enter(StepAfter("copy_in"), entries, pairs)
           ELSE "find"
    ELSE IF step = "copy_out" /\ pairs = <<>>
      THEN Enter(StepAfter("copy_out"), entries, pairs)
    ELSE step

\* Mutant of Failure: the error is dropped and the call runs on to its end.
Failure_Ignored(err) ==
    /\ pc' = "log_success"
    /\ borrowed' = "none"
    /\ live' = drop_borrowed(live, borrowed)
    /\ UNCHANGED <<result, idx, account_indices, account_info_index>>

\* The control variables of the call an error path and a completed step set.
\* Failure: `.map_err(...)?` on Err(err): return the translated error or panic.
Failure(err) ==
    /\ pc' = IF map_err(err).panic THEN "panicked" ELSE "returned"
    /\ result' = IF map_err(err).panic THEN NoResult ELSE Err(map_err(err).error)
    /\ borrowed' = "none"
    /\ live' = drop_borrowed(live, borrowed)
    /\ UNCHANGED <<idx, account_indices, account_info_index>>

Panic ==
    /\ pc' = "panicked"
    /\ borrowed' = "none"
    /\ live' = drop_borrowed(live, borrowed)
    /\ UNCHANGED <<result, idx, account_indices, account_info_index>>

\* A copy-in statement is done: go on with the next one, or end the
\* iteration (lines 201-204) and take the next account.
CopyInAdvance(cur) ==
    LET ia == instruction_accounts[idx]
    IN  IF NextCopyInStep(cur) = "record"
          THEN /\ account_indices' =
                    IF record_for_copy_out(ia)
                      THEN Append(account_indices,
                                  <<ia.index_in_caller, account_info_index>>)
                      ELSE account_indices
               /\ borrowed' = "none"
               /\ live' = drop_borrowed(live, borrowed)
               /\ idx' = idx + 1
               /\ pc' = IF idx = Len(instruction_accounts)
                          THEN Enter(StepAfter("copy_in"), <<>>, account_indices')
                          ELSE "find"
               /\ UNCHANGED <<result, account_info_index>>
          ELSE /\ pc' = NextCopyInStep(cur)
               /\ UNCHANGED <<result, borrowed, live, idx, account_indices,
                              account_info_index>>


(***************************************************************************)
(* The call, one action per statement.                                     *)
(***************************************************************************)
\* The guest views as the harness hands them to the guest: copies of the
\* host accounts, in the order `shape` lists their keys.
ViewsOf(shape, accounts) ==
    [v \in 1..Len(shape) |->
       [key |-> shape[v],
        lamports |-> accounts[shape[v]].lamports,
        data |-> accounts[shape[v]].data,
        owner |-> accounts[shape[v]].owner,
        orig_len |-> Len(accounts[shape[v]].data)]]

ViewShapes == {<<"B", "A">>, <<"A">>}

InitialAccounts ==
    [k \in Keys |->
       IF k = "A" THEN [lamports |-> 1, data |-> <<0>>, owner |-> "P1"]
       ELSE [lamports |-> 0, data |-> <<>>, owner |-> "P2"]]

InitInvoke ==
    /\ hostAcc = InitialAccounts
    /\ callerWritable \in SUBSET Keys
    /\ \E shape \in ViewShapes : acctInfos = ViewsOf(shape, InitialAccounts)
    /\ guestWrote = FALSE
    /\ pc = "guest"
    /\ instruction = [program_id |-> TargetProgram, accounts |-> <<>>]
    /\ signers_seeds = <<>>
    /\ caller = "none"
    /\ signers = <<>>
    /\ instruction_accounts = <<>>
    /\ account_indices = <<>>
    /\ idx = 0
    /\ account_info_index = 0
    /\ borrowed = "none"
    /\ live = {}
    /\ result = NoResult
    /\ trace = <<>>
    /\ guest0 = <<>>
    /\ host0 = InitialAccounts
    /\ hostErr = NoHostErr
    /\ fatal = {}

\* The guest program changes one of its account views before it invokes
\* (the account_infos argument, lines 95 and 102-106, is guest memory).  A
\* guest grows a data buffer with AccountInfo::realloc, within its limit.
GuestWrite(v, new) ==
    /\ pc = "guest"
    /\ ~guestWrote
    /\ v \in 1..Len(acctInfos)
    /\ Len(new.data) <= acctInfos[v].orig_len + MaxDataIncrease
    /\ new # [lamports |-> acctInfos[v].lamports, data |-> acctInfos[v].data,
              owner |-> acctInfos[v].owner]
    /\ acctInfos' = [acctInfos EXCEPT ![v].lamports = new.lamports,
                                      ![v].data = new.data,
                                      ![v].owner = new.owner]
    /\ guestWrote' = TRUE
    /\ UNCHANGED <<hostAcc, callerWritable, pc, instruction, signers_seeds,
                   caller, signers, instruction_accounts, account_indices, idx,
                   account_info_index, borrowed, live, result, trace, guest0, host0,
                   hostErr, fatal>>
    /\ UNCHANGED exceptInvoke

\* Entry of sol_invoke_signed (lines 92-123): the current instruction frame
\* and its last program key are read; both exist while a program runs.
sol_invoke_signed(instr, seeds) ==
    /\ pc = "guest"
    /\ programStack # <<>>
    /\ instruction' = instr
    /\ signers_seeds' = seeds
    /\ caller' = get_last_program_key(programStack)
    /\ guest0' = acctInfos
    /\ host0' = hostAcc
    /\ pc' = Enter(StepAfter("entry"), <<>>, <<>>)
    /\ UNCHANGED <<hostAcc, callerWritable, acctInfos, guestWrote, signers,
                   instruction_accounts, account_indices, idx,
                   account_info_index, borrowed, live, result, trace, hostErr, fatal>>
    /\ UNCHANGED exceptInvoke

\* Lines 125-128: create_program_address(seeds, caller).unwrap() per seed set.
derive_signers ==
    /\ pc = "derive_signers"
    /\ IF \E i \in 1..Len(signers_seeds) :
            create_program_address(signers_seeds[i], caller).tag = "Err"
         THEN /\ Panic
              /\ fatal' = fatal \cup {"signer_seed_derivation"}
              /\ UNCHANGED signers
         ELSE /\ signers' = [i \in 1..Len(signers_seeds) |->
                               create_program_address(signers_seeds[i], caller).val]
              /\ pc' = Enter(StepAfter("derive_signers"), instruction_accounts,
                             account_indices)
              /\ UNCHANGED <<fatal, result, borrowed, live, idx, account_indices,
                             account_info_index>>
    /\ trace' = Append(trace, <<"derive_signers", 0>>)
    /\ UNCHANGED <<hostAcc, callerWritable, acctInfos, guestWrote, instruction,
                   signers_seeds, caller, instruction_accounts, guest0, host0,
                   hostErr>>
    /\ UNCHANGED exceptInvoke

\* Lines 130-145: staging.
stage_instruction ==
    /\ pc = "prepare"
    /\ LET r == prepare_instruction(instruction, signers, callerWritable)
       IN  IF r.tag = "Err"
             THEN /\ Failure(r.val)
                  /\ hostErr' = [tag |-> "Some", at |-> "prepare_instruction",
                                 err |-> r.val]
                  /\ UNCHANGED instruction_accounts
             ELSE /\ instruction_accounts' = r.val
                  /\ idx' = 1
                  /\ pc' = Enter(StepAfter("prepare"), r.val, account_indices)
                  /\ UNCHANGED <<hostErr, result, borrowed, live, account_indices,
                                 account_info_index>>
    /\ trace' = Append(trace, <<"prepare_instruction", 0>>)
    /\ UNCHANGED <<hostAcc, callerWritable, acctInfos, guestWrote, instruction,
                   signers_seeds, caller, signers, guest0, host0, fatal>>
    /\ UNCHANGED exceptInvoke

\* Lines 147-168: the guest view of the account is looked up by key and the
\* host account is borrowed.
copy_in_find ==
    /\ pc = "find"
    /\ LET ia == instruction_accounts[idx]
           v == position(acctInfos, ia.index_in_transaction)
           b == try_borrow_instruction_account(live, ia.index_in_caller)
       IN  IF v = 0
             THEN /\ Failure(IE("MissingAccount"))
                  /\ fatal' = fatal \cup {"missing_account_view"}
                  /\ trace' = Append(trace, <<"missing_view", idx>>)
                  /\ UNCHANGED hostErr
           ELSE IF b.tag = "Err"
             THEN /\ Failure(b.val)
                  /\ hostErr' = [tag |-> "Some",
                                 at |-> "try_borrow_instruction_account",
                                 err |-> b.val]
                  /\ trace' = Append(trace, <<"borrow_rejected", idx>>)
                  /\ UNCHANGED fatal
           ELSE /\ account_info_index' = v
                /\ borrowed' = ia.index_in_caller
                /\ live' = b.val
                /\ pc' = NextCopyInStep("find")
                /\ trace' = Append(trace, <<"borrow", idx>>)
                /\ UNCHANGED <<fatal, hostErr, result, idx, account_indices>>
    /\ UNCHANGED <<hostAcc, callerWritable, acctInfos, guestWrote, instruction,
                   signers_seeds, caller, signers, instruction_accounts, guest0,
                   host0>>
    /\ UNCHANGED exceptInvoke

\* Lines 169-175: lamports.
copy_in_lamports ==
    /\ pc = "lamports"
    /\ LET acc == hostAcc[borrowed]
           info == acctInfos[account_info_index]
           r == set_lamports(acc, borrowed \in callerWritable, caller, info.lamports)
       IN  IF acc.lamports = info.lamports
             THEN /\ CopyInAdvance("lamports")
                  /\ trace' = Append(trace, <<"lamports_in_sync", idx>>)
                  /\ UNCHANGED <<hostAcc, hostErr>>
           ELSE IF r.tag = "Err"
             THEN /\ Failure(r.val)
                  /\ hostErr' = [tag |-> "Some", at |-> "set_lamports", err |-> r.val]
                  /\ trace' = Append(trace, <<"set_lamports_rejected", idx>>)
                  /\ UNCHANGED hostAcc
           ELSE /\ hostAcc' = [hostAcc EXCEPT ![borrowed] = r.val]
                /\ CopyInAdvance("lamports")
                /\ trace' = Append(trace, <<"set_lamports", idx>>)
                /\ UNCHANGED hostErr
    /\ UNCHANGED <<callerWritable, acctInfos, guestWrote, instruction,
                   signers_seeds, caller, signers, instruction_accounts, guest0,
                   host0, fatal>>
    /\ UNCHANGED exceptInvoke

\* Lines 177-192: data.
copy_in_data ==
    /\ pc = "data"
    /\ LET acc == hostAcc[borrowed]
           info == acctInfos[account_info_index]
           d == data_sync(acc, borrowed \in callerWritable, caller, info.data)
       IN  /\ IF d.how = "panic"
                THEN /\ Panic
                     /\ trace' = Append(trace, <<"data_panic", idx>>)
                     /\ UNCHANGED <<hostAcc, hostErr>>
              ELSE IF d.how = "keep"
                THEN /\ CopyInAdvance("data")
                     /\ trace' = Append(trace, <<"data_kept", idx>>)
                     /\ UNCHANGED <<hostAcc, hostErr>>
              ELSE IF d.res.tag = "Err"
                THEN /\ Failure(d.res.val)
                     /\ hostErr' = [tag |-> "Some", at |-> "set_data_from_slice",
                                    err |-> d.res.val]
                     /\ trace' = Append(trace, <<"set_data_rejected", idx>>)
                     /\ UNCHANGED hostAcc
              ELSE /\ hostAcc' = [hostAcc EXCEPT ![borrowed] = d.res.val]
                   /\ CopyInAdvance("data")
                   /\ trace' = Append(trace, <<"set_data_from_slice", idx>>)
                   /\ UNCHANGED hostErr
           \* history: the guest bytes differ where the host forbids a change
           /\ fatal' =
                IF /\ acc.data # info.data
                   /\ \/ can_data_be_resized(acc, caller, Len(info.data)).tag = "Err"
                      \/ can_data_be_changed(acc, borrowed \in callerWritable,
                                             caller).tag = "Err"
                  THEN fatal \cup {"immutable_data_mutated"}
                  ELSE fatal
    /\ UNCHANGED <<callerWritable, acctInfos, guestWrote, instruction,
                   signers_seeds, caller, signers, instruction_accounts, guest0,
                   host0>>
    /\ UNCHANGED exceptInvoke

\* Lines 193-200: owner.
copy_in_owner ==
    /\ pc = "owner"
    /\ LET acc == hostAcc[borrowed]
           info == acctInfos[account_info_index]
           r == set_owner(acc, borrowed \in callerWritable, caller, info.owner)
       IN  IF acc.owner = info.owner
             THEN /\ CopyInAdvance("owner")
                  /\ trace' = Append(trace, <<"owner_in_sync", idx>>)
                  /\ UNCHANGED <<hostAcc, hostErr>>
           ELSE IF r.tag = "Err"
             THEN /\ Failure(r.val)
                  /\ hostErr' = [tag |-> "Some", at |-> "set_owner", err |-> r.val]
                  /\ trace' = Append(trace, <<"set_owner_rejected", idx>>)
                  /\ UNCHANGED hostAcc
           ELSE /\ hostAcc' = [hostAcc EXCEPT ![borrowed] = r.val]
                /\ CopyInAdvance("owner")
                /\ trace' = Append(trace, <<"set_owner", idx>>)
                /\ UNCHANGED hostErr
    /\ UNCHANGED <<callerWritable, acctInfos, guestWrote, instruction,
                   signers_seeds, caller, signers, instruction_accounts, guest0,
                   host0, fatal>>
    /\ UNCHANGED exceptInvoke

\* Lines 206-212: stable_log::program_invoke at the current stack height.
log_invoke ==
    /\ pc = "log_invoke"
    /\ trace' = Append(trace, <<"program_invoke", Len(programStack)>>)
    /\ pc' = Enter(StepAfter("log_invoke"), instruction_accounts, account_indices)
    /\ UNCHANGED <<hostAcc, callerWritable, acctInfos, guestWrote, instruction,
                   signers_seeds, caller, signers, instruction_accounts,
                   account_indices, idx, account_info_index, borrowed, live, result,
                   guest0, host0, hostErr, fatal>>
    /\ UNCHANGED exceptInvoke

\* Lines 214-224, process_instruction returns Ok: the nested program ran and
\* left one of the accounts it was given in a state of its choice (the same
\* state when it changed nothing).
process_instruction_ok(k, new) ==
    /\ pc = "process"
    /\ \/ \E i \in 1..Len(instruction_accounts) :
              instruction_accounts[i].index_in_transaction = k
       \/ instruction_accounts = <<>> /\ k = "A" /\ new = hostAcc[k]
    /\ hostAcc' = [hostAcc EXCEPT ![k] = new]
    /\ trace' = Append(trace, <<"process_instruction", 0>>)
    /\ idx' = 1
    /\ pc' = Enter(StepAfter("process"), instruction_accounts, account_indices)
    /\ UNCHANGED <<callerWritable, acctInfos, guestWrote, instruction,
                   signers_seeds, caller, signers, instruction_accounts,
                   account_indices, account_info_index, borrowed, live,
                   result, guest0, host0, hostErr, fatal>>
    /\ UNCHANGED exceptInvoke

\* Lines 214-224, process_instruction returns Err(err).
process_instruction_err(err) ==
    /\ pc = "process"
    /\ Failure(err)
    /\ hostErr' = [tag |-> "Some", at |-> "process_instruction", err |-> err]
    /\ trace' = Append(trace, <<"process_instruction_failed", 0>>)
    /\ UNCHANGED <<hostAcc, callerWritable, acctInfos, guestWrote, instruction,
                   signers_seeds, caller, signers, instruction_accounts,
                   guest0, host0, fatal>>
    /\ UNCHANGED exceptInvoke

\* Lines 235-240: a copy-out iteration borrows the host account.
copy_out_borrow ==
    /\ pc = "copy_out"
    /\ LET pair == account_indices[idx]
           b == try_borrow_instruction_account(live, pair[1])
       IN  IF b.tag = "Err"
             THEN /\ Failure(b.val)
                  /\ hostErr' = [tag |-> "Some",
                                 at |-> "try_borrow_instruction_account",
                                 err |-> b.val]
                  /\ trace' = Append(trace, <<"borrow_out_rejected", idx>>)
             ELSE /\ borrowed' = pair[1]
                  /\ live' = b.val
                  /\ pc' = "copy_out_write"
                  /\ trace' = Append(trace, <<"borrow_out", idx>>)
                  /\ UNCHANGED <<hostErr, result, idx, account_indices,
                                 account_info_index>>
    /\ UNCHANGED <<hostAcc, callerWritable, acctInfos, guestWrote, instruction,
                   signers_seeds, caller, signers, instruction_accounts, guest0,
                   host0, fatal>>
    /\ UNCHANGED exceptInvoke

\* Lines 241-264: the rest of the iteration writes the guest view; the
\* handle is dropped at its end, or by the unwinding of the realloc panic.
copy_out ==
    /\ pc = "copy_out_write"
    /\ LET pair == account_indices[idx]
           r == copy_out_view(acctInfos[pair[2]], hostAcc[pair[1]])
       IN  /\ acctInfos' = [acctInfos EXCEPT ![pair[2]] = r.view]
           /\ IF r.how = "panic"
                THEN /\ pc' = "panicked"
                     /\ trace' = Append(trace, <<"realloc_panic", idx>>)
                     /\ UNCHANGED <<idx, result>>
              ELSE IF r.how = "return"
                THEN /\ pc' = "returned"
                     /\ result' = Err(ProgramError("InvalidRealloc", 0, ""))
                     /\ trace' = Append(trace, <<"realloc_failed", idx>>)
                     /\ UNCHANGED idx
              ELSE /\ pc' = IF idx = Len(account_indices)
                              THEN Enter(StepAfter("copy_out"), <<>>, <<>>)
                              ELSE "copy_out"
                   /\ trace' = Append(trace, <<"copy_out", idx>>)
                   /\ idx' = idx + 1
                   /\ UNCHANGED result
    /\ borrowed' = "none"
    /\ live' = drop_borrowed(live, borrowed)
    /\ UNCHANGED <<hostAcc, callerWritable, guestWrote, instruction,
                   signers_seeds, caller, signers, instruction_accounts,
                   account_indices, account_info_index,
                   guest0, host0, hostErr, fatal>>
    /\ UNCHANGED exceptInvoke

\* Lines 266-268: stable_log::program_success, then Ok(()).
log_success ==
    /\ pc = "log_success"
    /\ trace' = Append(trace, <<"program_success", 0>>)
    /\ result' = Ok(Unit)
    /\ pc' = Enter(StepAfter("log_success"), <<>>, <<>>)
    /\ UNCHANGED <<hostAcc, callerWritable, acctInfos, guestWrote, instruction,
                   signers_seeds, caller, signers, instruction_accounts,
                   account_indices, idx, account_info_index, borrowed, live, guest0,
                   host0, hostErr, fatal>>
    /\ UNCHANGED exceptInvoke

(***************************************************************************)
(* Specifications.                                                         *)
(***************************************************************************)
IdleInstall == InitInstall
IdleTranslate == errIn = IE("GenericError") /\ errOut = NoResult
IdleSysvar ==
    /\ sysvarCache = [k \in SysvarKinds |-> 0]
    /\ varKind = "none"
    /\ varBefore = [kind |-> "none", val |-> 0]
    /\ varBuf = [kind |-> "none", val |-> 0]
    /\ sysStatus = NoStatus
IdleReturnData ==
    /\ programStack = <<"P2", "P1">>
    /\ returnData = EmptyReturnData
    /\ getResult = None
    /\ lastSet = None
    /\ rdPanicked = FALSE
IdleInvoke ==
    /\ InitInvoke
    /\ callerWritable = {}
    /\ acctInfos = ViewsOf(<<"A">>, InitialAccounts)

NextInstall ==
    \E t \in Threads :
        \/ set_stubs_v1(t)
        \/ call_once(t)
        \/ set_syscall_stubs(t)
        \/ call_once_complete(t)
        \/ call_once_wake(t)

NextTranslate == Translate \/ NextError

NextSysvar ==
    \/ sol_get_rent_sysvar
    \/ sol_get_clock_sysvar
    \/ sol_get_epoch_schedule_sysvar
    \/ sol_get_epoch_rewards_sysvar
    \/ sol_get_fees_sysvar
    \/ sol_get_last_restart_slot

NextReturnData ==
    \/ \E data \in ReturnBuffers : sol_set_return_data(data)
    \/ sol_get_return_data
    \/ pop_frame

NextInvoke ==
    \/ \E v \in 1..Cardinality(Keys), new \in AccountStates : GuestWrite(v, new)
    \/ \E instr \in Instructions, seeds \in SeqsUpTo(SeedSets, MaxSeedSets) :
         sol_invoke_signed(instr, seeds)
    \/ derive_signers
    \/ stage_instruction
    \/ copy_in_find
    \/ copy_in_lamports
    \/ copy_in_data
    \/ copy_in_owner
    \/ log_invoke
    \/ \E k \in Keys, new \in AccountStates : process_instruction_ok(k, new)
    \/ \E err \in ProcessErrors : process_instruction_err(err)
    \/ copy_out_borrow
    \/ copy_out
    \/ log_success

\* The bridge called with up to MaxSignerSeedSets seed sets and a short
\* instruction; the guest leaves its views as the harness made them.
NextSigners ==
    \/ \E instr \in SignerInstructions,
          seeds \in SeqsUpTo(SignerSeedSets, MaxSignerSeedSets) :
         sol_invoke_signed(instr, seeds)
    \/ derive_signers
    \/ stage_instruction
    \/ copy_in_find
    \/ copy_in_lamports
    \/ copy_in_data
    \/ copy_in_owner
    \/ log_invoke
    \/ \E k \in Keys, new \in AccountStates : process_instruction_ok(k, new)
    \/ \E err \in ProcessErrors : process_instruction_err(err)
    \/ copy_out_borrow
    \/ copy_out
    \/ log_success

InitSpecInstall ==
    InitInstall /\ IdleTranslate /\ IdleSysvar /\ IdleReturnData /\ IdleInvoke
InitSpecTranslate ==
    IdleInstall /\ InitTranslate /\ IdleSysvar /\ IdleReturnData /\ IdleInvoke
InitSpecSysvar ==
    IdleInstall /\ IdleTranslate /\ InitSysvar /\ IdleReturnData /\ IdleInvoke
InitSpecReturnData ==
    IdleInstall /\ IdleTranslate /\ IdleSysvar /\ InitReturnData /\ IdleInvoke
InitSpecInvoke ==
    IdleInstall /\ IdleTranslate /\ IdleSysvar /\ IdleReturnData /\ InitInvoke

SpecInstall == InitSpecInstall /\ [][NextInstall]_vars
SpecTranslate == InitSpecTranslate /\ [][NextTranslate]_vars
SpecSysvar == InitSpecSysvar /\ [][NextSysvar]_vars
SpecReturnData == InitSpecReturnData /\ [][NextReturnData]_vars
SpecInvoke == InitSpecInvoke /\ [][NextInvoke]_vars
SpecSigners == InitSpecInvoke /\ [][NextSigners]_vars

(***************************************************************************)
(* Properties.                                                             *)
(***************************************************************************)

\* C1: whatever the number of set_stubs_v1 calls and threads and however
\* they interleave, set_syscall_stubs takes effect exactly once: at most
\* one installation ever completes, after it the slot holds the
\* TridentSyscallStubs handler, and no later call is inside the installing
\* closure again (it neither replaces nor re-installs the handler).
C1_InstalledExactlyOnce ==
    /\ installs <= 1
    /\ handler = IF installs = 0 THEN DefaultStubs ELSE TridentStubs
    /\ installs = 1 => \A t \in Threads : tpc[t] # "closure"

\* Two threads have returned from set_stubs_v1, one of them from its second
\* call, after the one installation.
C1_Witness ==
    /\ installs = 1
    /\ \E t, u \in Threads :
         /\ t # u
         /\ tpc[t] = "returned" /\ tcalls[t] = MaxCalls
         /\ tpc[u] = "returned"

\* C2: under concurrent first use, a thread that has returned from
\* set_stubs_v1 finds the installation of the winning thread completed: the
\* handler is in the slot and no thread is still inside the closure.
C2_ReturnImpliesInstalled ==
    \A t \in Threads :
        tpc[t] = "returned" =>
            /\ handler = TridentStubs
            /\ installs = 1
            /\ \A u \in Threads : tpc[u] # "closure"

\* Concurrent first use: one thread has returned while another, which
\* arrived during the installation, is still blocked in call_once.
C2_Witness ==
    \E t, u \in Threads : tpc[t] = "returned" /\ tpc[u] = "blocked"


\* The fixed enumeration of the translation table: the host error kinds
\* that have a guest error of the same kind.
TranslatedKinds ==
    {"Custom", "InvalidArgument", "InvalidInstructionData",
     "InvalidAccountData", "AccountDataTooSmall", "InsufficientFunds",
     "IncorrectProgramId", "MissingRequiredSignature",
     "AccountAlreadyInitialized", "UninitializedAccount",
     "NotEnoughAccountKeys", "AccountBorrowFailed", "MaxSeedLengthExceeded",
     "InvalidSeeds", "BorshIoError", "AccountNotRentExempt",
     "UnsupportedSysvar", "IllegalOwner", "MaxAccountsDataAllocationsExceeded",
     "InvalidRealloc", "MaxInstructionTraceLengthExceeded",
     "BuiltinProgramsMustConsumeComputeUnits", "InvalidAccountOwner",
     "ArithmeticOverflow"}

\* C6: for a host error of a kind in the fixed enumeration the translator
\* returns the guest error of the same kind, with the number of Custom and
\* the message of BorshIoError preserved; for a host error of any other kind
\* it returns the "unmapped" failure that carries the original host error,
\* never a guest error.
C6_TranslatorTotal ==
    errOut.tag # "None" =>
        IF errIn.kind \in TranslatedKinds
          THEN /\ errOut.tag = "Ok"
               /\ errOut.val.enum = "ProgramError"
               /\ errOut.val.kind = errIn.kind
               /\ errOut.val.code = errIn.code
               /\ errOut.val.msg = errIn.msg
          ELSE /\ errOut.tag = "Err"
               /\ errOut.val = errIn
               /\ errOut.val.enum = "InstructionError"

\* Custom(n) with n > 0 has been translated.
C6_Witness ==
    /\ errOut.tag = "Ok"
    /\ errIn.kind = "Custom"
    /\ errIn.code = MaxCustomCode
    /\ errOut.val.code = MaxCustomCode


\* C9: after a call of any of the six sysvar accessors: when the cache
\* holds the sysvar, the destination buffer holds a copy of the cached value
\* and the call returned SUCCESS; when the cache does not hold it, the
\* buffer is as it was before the call and the call returned
\* UNSUPPORTED_SYSVAR.  An accessor always returns one of the two codes.
C9_SysvarAccessor ==
    varKind # "none" =>
        /\ sysStatus \in {SUCCESS, UNSUPPORTED_SYSVAR}
        /\ IF sysvarCache[varKind] # 0
             THEN /\ varBuf = [kind |-> varKind, val |-> sysvarCache[varKind]]
                  /\ sysStatus = SUCCESS
             ELSE /\ varBuf = varBefore
                  /\ sysStatus = UNSUPPORTED_SYSVAR

\* A miss: the fee sysvar is absent and the buffer, which held a value
\* before the call, still holds it.
C9_Witness ==
    /\ varKind = "fees"
    /\ sysvarCache["fees"] = 0
    /\ varBefore.val = MaxSysvarVal
    /\ varBuf = varBefore
    /\ sysStatus = UNSUPPORTED_SYSVAR
    /\ sysvarCache["clock"] # 0


\* The slot a sequence of calls must have produced: the pair of the last
\* completed sol_set_return_data, or the empty slot before any set.
ExpectedSlot == IF lastSet.tag = "None" THEN EmptyReturnData ELSE lastSet.val

\* C10: after any sequence of sol_set_return_data and sol_get_return_data
\* calls the slot holds exactly the bytes of the most recent set together
\* with the program that was last on the call stack at that set (a set
\* replaces, a get changes nothing), and what sol_get_return_data returned
\* is that pair; before any set it is the empty pair: no bytes, the default
\* program id.
C10_ReturnDataLastSet ==
    /\ returnData = ExpectedSlot
    /\ getResult.tag = "Some" => getResult.val = ExpectedSlot

\* P1 set two bytes and returned to its caller P2, which read them back as
\* (P1, bytes).
C10_Witness ==
    /\ programStack = <<"P2">>
    /\ getResult.tag = "Some"
    /\ getResult.val = [program_id |-> "P1", data |-> <<1, 2>>]


(***************************************************************************)
(* Properties of sol_invoke_signed.                                        *)
(***************************************************************************)
\* The guest view the copy-in loop matches with entry i of the expanded list.
ViewOfEntry(i) == position(acctInfos, instruction_accounts[i].index_in_transaction)

\* The key is writable in the expanded instruction-account list.
WritableInList(k) ==
    \E i \in 1..Len(instruction_accounts) :
        /\ instruction_accounts[i].index_in_transaction = k
        /\ instruction_accounts[i].is_writable

Before(p, ops, i) == \E q \in 1..(p - 1) : trace[q][2] = i /\ trace[q][1] \in ops

\* C3: in copy-in the host set-owner operation of an entry of the expanded
\* list is issued only after the lamport step and the data step of that
\* entry have been performed or skipped, and when the owner is compared and
\* set the host lamports and data of the account equal the guest's.
C3_OwnerSyncedLast ==
    /\ \A p \in 1..Len(trace) :
         trace[p][1] \in {"set_owner", "set_owner_rejected"} =>
             /\ Before(p, {"set_lamports", "lamports_in_sync"}, trace[p][2])
             /\ Before(p, {"set_data_from_slice", "data_kept"}, trace[p][2])
    /\ pc = "owner" =>
         /\ hostAcc[borrowed].lamports = acctInfos[account_info_index].lamports
         /\ hostAcc[borrowed].data = acctInfos[account_info_index].data

\* The guest changed lamports, data and owner of A; all three were set on
\* the host, the owner last.
C3_Witness ==
    /\ InSeq(<<"set_lamports", 1>>, trace)
    /\ InSeq(<<"set_data_from_slice", 1>>, trace)
    /\ InSeq(<<"set_owner", 1>>, trace)
    /\ hostAcc["A"].data # host0["A"].data
    /\ hostAcc["A"].owner # host0["A"].owner
    /\ hostAcc["A"].lamports # host0["A"].lamports

\* C4: when sol_invoke_signed has returned success, the guest view matched
\* with every writable entry of the expanded list holds the host's state of
\* the account: the same lamports, the same owner, data of the same length
\* and bytes.
C4_WritableCopiedOut ==
    (pc = "returned" /\ result = Ok(Unit)) =>
        \A i \in 1..Len(instruction_accounts) :
            instruction_accounts[i].is_writable =>
                LET k == instruction_accounts[i].index_in_transaction
                    v == ViewOfEntry(i)
                IN  /\ v # 0
                    /\ acctInfos[v].lamports = hostAcc[k].lamports
                    /\ acctInfos[v].owner = hostAcc[k].owner
                    /\ Len(acctInfos[v].data) = Len(hostAcc[k].data)
                    /\ acctInfos[v].data = hostAcc[k].data

\* The nested call changed lamports, owner and data length of the writable
\* account A, and the call returned success.
C4_Witness ==
    /\ pc = "returned" /\ result = Ok(Unit)
    /\ WritableInList("A")
    /\ \E v \in 1..Len(acctInfos) :
         /\ acctInfos[v].key = "A"
         /\ acctInfos[v].lamports # guest0[v].lamports
         /\ acctInfos[v].owner # guest0[v].owner
         /\ Len(acctInfos[v].data) # Len(guest0[v].data)
         /\ acctInfos[v].data = hostAcc["A"].data

\* C5: from the start of the call on, a guest view of an account that is
\* not writable in the expanded list is as it was when the call started,
\* whatever the nested call did to the host account; with no writable
\* account in the list every view is unchanged.
C5_ReadOnlyViewsUnchanged ==
    pc # "guest" =>
        \A v \in 1..Len(acctInfos) :
            ~WritableInList(acctInfos[v].key) => acctInfos[v] = guest0[v]

\* The call returned success, A was read-only in the list, the nested call
\* changed the host account, and the view of A differs from the host.
C5_Witness ==
    /\ pc = "returned" /\ result = Ok(Unit)
    /\ \E i \in 1..Len(instruction_accounts) :
         instruction_accounts[i].index_in_transaction = "A"
    /\ ~WritableInList("A")
    /\ hostAcc["A"] # host0["A"]
    /\ \E v \in 1..Len(acctInfos) :
         /\ acctInfos[v].key = "A"
         /\ acctInfos[v] = guest0[v]
         /\ acctInfos[v].data # hostAcc["A"].data
         /\ acctInfos[v].lamports # hostAcc["A"].lamports

HostFailedAt(sites) == hostErr.tag = "Some" /\ hostErr.at \in sites

\* C7 as stated: a failure the host reports in prepare_instruction or in
\* process_instruction makes sol_invoke_signed return a translated failure;
\* it never aborts.
C7_HostFailureReturned ==
    HostFailedAt({"prepare_instruction", "process_instruction"}) =>
        /\ pc = "returned"
        /\ result.tag = "Err"

\* C7, amended: a failure the host reports in prepare_instruction or in
\* process_instruction is returned to the guest, translated, when its kind
\* has an entry in the translation table; with a kind that has no entry
\* (MissingAccount, PrivilegeEscalation, ...) the call aborts.
C7_HostFailureReturnedIfMapped ==
    HostFailedAt({"prepare_instruction", "process_instruction"}) =>
        IF hostErr.err.kind \in TranslatedKinds
          THEN /\ pc = "returned"
               /\ result =
                    Err(ProgramError(hostErr.err.kind, hostErr.err.code,
                                     hostErr.err.msg))
          ELSE /\ pc = "panicked"
               /\ result = NoResult

\* process_instruction failed with Custom(1) and the guest got Custom(1).
C7_Witness ==
    /\ HostFailedAt({"process_instruction"})
    /\ hostErr.err.kind = "Custom"
    /\ pc = "returned"
    /\ result = Err(ProgramError("Custom", 1, ""))

\* C8: each of these aborts the call, and none returns to the guest: a host
\* error of a kind without an entry in the translation table, an entry of
\* the expanded list without a guest view of the same key, a signer-seed
\* set whose derivation fails, guest bytes that differ from the host's
\* where the host does not allow the data to change.
C8_FatalConditionsAbort ==
    /\ (hostErr.tag = "Some" /\ hostErr.err.kind \notin TranslatedKinds) =>
           (pc = "panicked" /\ result = NoResult)
    /\ fatal # {} => (pc = "panicked" /\ result = NoResult)
    /\ pc = "returned" =>
           /\ \A i \in 1..Len(instruction_accounts) : ViewOfEntry(i) # 0
           /\ \A i \in 1..Len(signers_seeds) :
                create_program_address(signers_seeds[i], caller).tag = "Ok"

\* The guest changed the bytes of an account the caller may not write, and
\* the call aborted in the data step.
C8_Witness ==
    /\ "immutable_data_mutated" \in fatal
    /\ pc = "panicked"
    /\ Last(trace)[1] = "data_panic"


\* C11: when process_instruction is called no host account handle acquired
\* by the bridge is live; a handle is live only inside the copy-in or the
\* copy-out iteration of the account it was acquired for, so at most one
\* handle is outstanding at any time.
C11_NoHandleAcrossInvocation ==
    /\ pc = "process" => (live = {} /\ borrowed = "none")
    /\ Cardinality(live) <= 1
    /\ live # {} =>
         /\ live = {borrowed}
         /\ \/ /\ pc \in {"lamports", "data", "owner"}
               /\ borrowed = instruction_accounts[idx].index_in_caller
            \/ /\ pc = "copy_out_write"
               /\ borrowed = account_indices[idx][1]

\* process_instruction is about to run for an instruction that names the
\* account A twice: the account was borrowed in two copy-in iterations, one
\* after the other, and no handle is left.
C11_Witness ==
    /\ pc = "process"
    /\ Len(instruction_accounts) = 2
    /\ instruction_accounts[1].index_in_caller = "A"
    /\ instruction_accounts[2].index_in_caller = "A"
    /\ InSeq(<<"borrow", 1>>, trace)
    /\ InSeq(<<"borrow", 2>>, trace)
    /\ live = {}


\* The host lets the data of the borrowed account take the length and the
\* bytes of the matched guest view.
HostPermitsData ==
    /\ can_data_be_resized(hostAcc[borrowed], caller,
                           Len(acctInfos[account_info_index].data)).tag = "Ok"
    /\ can_data_be_changed(hostAcc[borrowed], borrowed \in callerWritable,
                           caller).tag = "Ok"

\* C12: the data step of copy-in, for the account of the iteration: when the
\* host permits both the resize and the change, the host data becomes a copy
\* of the guest data; when it forbids either and the bytes differ, the call
\* aborts; when it forbids either and the bytes are equal, the host data
\* stays as it is and copy-in goes on with the owner step.
C12_DataStep ==
    [][pc = "data" =>
         IF HostPermitsData
           THEN /\ hostAcc' = [hostAcc EXCEPT ![borrowed].data =
                                 acctInfos[account_info_index].data]
                /\ pc' = "owner"
         ELSE IF hostAcc[borrowed].data # acctInfos[account_info_index].data
           THEN /\ pc' = "panicked"
                /\ result' = NoResult
                /\ hostAcc' = hostAcc
         ELSE /\ hostAcc' = hostAcc
              /\ pc' = "owner"]_vars

\* One call met two of the cases: the data of the first account, which the
\* caller may not change, was equal and kept; the data of the second was
\* changed by the guest and copied to the host.
C12_Witness ==
    /\ InSeq(<<"data_kept", 1>>, trace)
    /\ InSeq(<<"set_data_from_slice", 2>>, trace)
    /\ Len(instruction_accounts) = 2
    /\ hostAcc[instruction_accounts[2].index_in_caller].data
         # host0[instruction_accounts[2].index_in_caller].data
    /\ pc = "owner"
    /\ hostAcc[borrowed].data = acctInfos[account_info_index].data


\* C13: the signer set handed to prepare_instruction holds, in the order of
\* the signer-seed sets, the address create_program_address derives from
\* each set with the last program key of the current frame as the base, and
\* not the address derived with the program id of the nested instruction;
\* it has one key per seed set.
C13_SignersFromCaller ==
    (pc \notin {"guest", "derive_signers"}
       /\ "signer_seed_derivation" \notin fatal) =>
        /\ caller = Last(programStack)
        /\ caller # instruction.program_id
        /\ Len(signers) = Len(signers_seeds)
        /\ \A i \in 1..Len(signers) :
             /\ signers[i] =
                  create_program_address(signers_seeds[i], Last(programStack)).val
             /\ signers[i] #
                  create_program_address(signers_seeds[i], instruction.program_id).val

\* Two different seed sets gave two different signers in the order of the
\* sets, and staging accepted A as a signer of the nested instruction.
C13_Witness ==
    /\ signers_seeds = <<"sb", "sa">>
    /\ signers = <<"B", "A">>
    /\ pc = "process"
    /\ Len(instruction_accounts) = 1
    /\ instruction_accounts[1].index_in_transaction = "A"
    /\ instruction_accounts[1].is_signer


CopyInSetters == {"set_lamports", "set_data_from_slice", "set_owner"}

\* After a rejection in copy-in the call has stopped at that account: the
\* rejection is the last step taken, and neither the invocation log, nor the
\* nested instruction, nor a copy-out step has happened.
StoppedAtRejection ==
    /\ pc \in {"returned", "panicked"}
    /\ Last(trace) \in {<<"set_lamports_rejected", idx>>,
                        <<"set_data_rejected", idx>>,
                        <<"set_owner_rejected", idx>>}
    /\ \A p \in 1..Len(trace) :
         trace[p][1] \notin {"program_invoke", "process_instruction",
                             "process_instruction_failed", "borrow_out",
                             "copy_out", "program_success"}
    /\ acctInfos = guest0
    /\ live = {}

\* C14 as stated: a set-lamports, set-data or set-owner operation the host
\* rejects in copy-in stops the call at that account and the rejection is
\* returned to the guest as a call failure.
C14_RejectionPropagated ==
    HostFailedAt(CopyInSetters) =>
        /\ StoppedAtRejection
        /\ pc = "returned"
        /\ result.tag = "Err"

\* C14, amended: a set-lamports, set-data or set-owner operation the host
\* rejects in copy-in stops the call at that account, with no invocation
\* log, no execution of the nested instruction and no copy-out; the
\* rejection reaches the guest as a call failure only when its kind has an
\* entry in the translation table, and otherwise the call aborts, which is
\* the case for the kinds these operations report.
C14_RejectionStopsCall ==
    HostFailedAt(CopyInSetters) =>
        /\ StoppedAtRejection
        /\ IF hostErr.err.kind \in TranslatedKinds
             THEN /\ pc = "returned"
                  /\ result =
                       Err(ProgramError(hostErr.err.kind, hostErr.err.code,
                                        hostErr.err.msg))
             ELSE /\ pc = "panicked"
                  /\ result = NoResult
        /\ hostErr.err.kind \in {"ExternalAccountLamportSpend",
                                 "ReadonlyLamportChange", "ModifiedProgramId"}
        /\ hostErr.err.kind \notin TranslatedKinds

\* The host took the lamports of the second account of the list and then
\* refused its new owner: the call aborted there.
C14_Witness ==
    /\ HostFailedAt({"set_owner"})
    /\ hostErr.err.kind = "ModifiedProgramId"
    /\ Last(trace) = <<"set_owner_rejected", 2>>
    /\ InSeq(<<"set_lamports", 2>>, trace)
    /\ pc = "panicked"


CopyInEvents ==
    {"missing_view", "borrow", "borrow_rejected", "lamports_in_sync",
     "set_lamports_rejected", "set_lamports", "data_panic", "data_kept",
     "set_data_rejected", "set_data_from_slice", "owner_in_sync",
     "set_owner_rejected", "set_owner"}

CopyOutEvents ==
    {"borrow_out", "borrow_out_rejected", "copy_out", "realloc_panic",
     "realloc_failed"}

\* The phase of the call a step belongs to.
PhaseOf(name) ==
    IF name = "derive_signers" THEN 0
    ELSE IF name = "prepare_instruction" THEN 1
    ELSE IF name \in CopyInEvents THEN 2
    ELSE IF name = "program_invoke" THEN 3
    ELSE IF name \in {"process_instruction", "process_instruction_failed"} THEN 4
    ELSE IF name \in CopyOutEvents THEN 5
    ELSE IF name = "program_success" THEN 6
    ELSE 7

Happened(p, names) == \E q \in 1..(p - 1) : trace[q][1] \in names

\* The (index_in_caller, view) pairs of the writable entries of the expanded
\* list, in list order.
WritablePairs ==
    LET F[i \in 0..Len(instruction_accounts)] ==
          IF i = 0 THEN <<>>
          ELSE IF instruction_accounts[i].is_writable
            THEN Append(F[i - 1], <<instruction_accounts[i].index_in_caller,
                                    ViewOfEntry(i)>>)
          ELSE F[i - 1]
    IN  F[Len(instruction_accounts)]

\* C15: the steps of a call happen in this order: staging, copy-in of the
\* entries of the expanded list in list order, the invocation log with the
\* stack depth of that moment, the nested instruction, copy-out of the
\* recorded writable pairs in recorded order, the success log and the
\* success return; the success log is written only after the nested
\* instruction and every copy-out step have completed.
C15_StepOrder ==
    /\ \A p \in 1..(Len(trace) - 1) :
         LET ph == PhaseOf(trace[p][1])
             nx == PhaseOf(trace[p + 1][1])
         IN  /\ ph <= nx
             /\ ph = nx => (ph \in {2, 5} /\ trace[p][2] <= trace[p + 1][2])
    /\ \A p \in 1..Len(trace) :
         LET ph == PhaseOf(trace[p][1])
         IN  /\ ph >= 2 => Happened(p, {"prepare_instruction"})
             /\ ph = 3 =>
                  /\ trace[p][2] = Len(programStack)
                  /\ account_indices = WritablePairs
                  /\ \A i \in 1..Len(instruction_accounts) :
                       \E q \in 1..(p - 1) :
                          trace[q] \in {<<"owner_in_sync", i>>, <<"set_owner", i>>}
             /\ ph = 4 => Happened(p, {"program_invoke"})
             /\ ph = 5 => Happened(p, {"process_instruction"})
             /\ ph = 6 =>
                  /\ trace[p][1] = "program_success"
                  /\ Happened(p, {"process_instruction"})
                  /\ \A j \in 1..Len(account_indices) :
                       \E q \in 1..(p - 1) : trace[q] = <<"copy_out", j>>
                  /\ p = Len(trace)
                  /\ pc = "returned"
                  /\ result = Ok(Unit)
    /\ (pc = "returned" /\ result = Ok(Unit)) =>
           Last(trace) = <<"program_success", 0>>

\* A call with two writable accounts has gone through every phase.
C15_Witness ==
    /\ pc = "returned"
    /\ result = Ok(Unit)
    /\ Len(account_indices) = 2
    /\ account_indices[1][1] # account_indices[2][1]
    /\ InSeq(<<"copy_out", 1>>, trace)
    /\ InSeq(<<"copy_out", 2>>, trace)
    /\ InSeq(<<"program_invoke", 2>>, trace)
    /\ Last(trace) = <<"program_success", 0>>


\* C16: when sol_invoke_signed has returned a failure to the guest, every
\* guest account view is as it was when the call started: lamports, owner,
\* data and data length.
C16_FailureLeavesViews ==
    (pc = "returned" /\ result.tag = "Err") =>
        /\ Len(acctInfos) = Len(guest0)
        /\ \A v \in 1..Len(acctInfos) :
             /\ acctInfos[v].lamports = guest0[v].lamports
             /\ acctInfos[v].owner = guest0[v].owner
             /\ acctInfos[v].data = guest0[v].data
             /\ Len(acctInfos[v].data) = Len(guest0[v].data)

\* The nested instruction failed with Custom(1) after the copy-in of a
\* writable account whose view the guest had changed; the guest got the
\* failure and its views are those it passed.
C16_Witness ==
    /\ pc = "returned"
    /\ result = Err(ProgramError("Custom", 1, ""))
    /\ account_indices # <<>>
    /\ guestWrote
    /\ hostAcc # host0
    /\ acctInfos = guest0


\* C17: when staging of the nested instruction has failed, or the derivation
\* of a signer-seed set has failed, the call has changed no host account:
\* lamports, data and owner of every host account are those of the start of
\* the call.
C17_EarlyFailureLeavesHost ==
    (HostFailedAt({"prepare_instruction"})
       \/ "signer_seed_derivation" \in fatal) =>
        \A k \in Keys :
            /\ hostAcc[k].lamports = host0[k].lamports
            /\ hostAcc[k].data = host0[k].data
            /\ hostAcc[k].owner = host0[k].owner

\* Staging refused an instruction that names A, whose view the guest had
\* changed: the host account still differs from the view.
C17_Witness ==
    /\ HostFailedAt({"prepare_instruction"})
    /\ hostErr.err.kind = "PrivilegeEscalation"
    /\ guestWrote
    /\ instruction.accounts[1].pubkey = "A"
    /\ \E v \in 1..Len(acctInfos) :
         /\ acctInfos[v].key = "A"
         /\ acctInfos[v].lamports # hostAcc["A"].lamports
    /\ hostAcc = host0

=============================================================================
